---- MODULE Spec2Model ----
(***************************************************************************)
(* PRCtoIRPLUS.py: extraction of labels and hex triples from a capture     *)
(* text, the per-byte bit-reversal transform, the 32 -> 2x16 bit packer    *)
(* and the assembly of the irplus document.                                *)
(*                                                                         *)
(* A Python str is modelled as a sequence of one-character strings.        *)
(***************************************************************************)
EXTENDS Integers, Sequences, FiniteSets, TLC

VARIABLES
    text,             \* main: the decoded upload (line 147)
    pc,               \* main: position in the handler
    extracted_texts,  \* main: labels (line 155)
    hex_groups,       \* main: accepted triples (line 158)
    output_lines,     \* main: "label\thex24" lines (lines 161-172)
    processed_lines,  \* main: lines after the transform loop (lines 175-190)
    split_args,       \* main: every value handed to split_32bit_hex_to_16bit (line 186)
    raised,           \* main: a ValueError escaped the handler
    xml_content,      \* generate_xml_content: the records of the document
    warnings,         \* generate_xml_content: lines skipped with st.warning
    t_in, t_out, t_pc,         \* a direct call of process_24bit_hex
    t_rr, t_n,                 \* the bit reversal of lines 50-66 applied t_n times
    p_in, p_out, p_fmt, p_pc   \* a direct call of split_32bit_hex_to_16bit

vars == <<text, pc, extracted_texts, hex_groups, output_lines, processed_lines,
          split_args, raised, xml_content, warnings,
          t_in, t_out, t_pc, t_rr, t_n, p_in, p_out, p_fmt, p_pc>>

mainVars == <<text, pc, extracted_texts, hex_groups, output_lines, processed_lines,
              split_args, raised, xml_content, warnings>>
tVars == <<t_in, t_out, t_pc, t_rr, t_n>>
pVars == <<p_in, p_out, p_fmt, p_pc>>

(***************************************************************************)
(* Bounds of the model.                                                    *)
(***************************************************************************)
MaxChunks == 4
MaxPackLen == 9

(***************************************************************************)
(* Characters.                                                             *)
(***************************************************************************)
TAB == "\t"
NL == "\n"

UpperDigits ==
    <<"0","1","2","3","4","5","6","7","8","9","A","B","C","D","E","F">>
LowerDigits ==
    <<"0","1","2","3","4","5","6","7","8","9","a","b","c","d","e","f">>

Range(s) == {s[i] : i \in 1..Len(s)}

\* [0-9A-Fa-f]
IsHexChar(c) == c \in Range(UpperDigits) \cup Range(LowerDigits)

\* \s, over the characters of the model
IsSpace(c) == c \in {" ", TAB, NL}

\* \w: letters, digits and the underscore
IsWordChar(c) ==
    c \in Range(UpperDigits) \cup Range(LowerDigits) \cup
          {"g","h","i","j","k","l","m","n","o","p","q","r","s","t","u","v","w","x","y","z",
           "G","H","I","J","K","L","M","N","O","P","Q","R","S","T","U","V","W","X","Y","Z","_"}

\* the value of one hexadecimal digit
DigitVal(c) == CHOOSE v \in 0..15 : UpperDigits[v + 1] = c \/ LowerDigits[v + 1] = c

(***************************************************************************)
(* int(s, base), bin(n)[2:], hex(n)[2:], str.upper, str.zfill, s[::-1].    *)
(***************************************************************************)
RECURSIVE int(_, _)
int(s, base) ==
    IF Len(s) = 0 THEN 0
    ELSE int(SubSeq(s, 1, Len(s) - 1), base) * base + DigitVal(s[Len(s)])

\* the digits of n in the base, most significant first, no leading zero
RECURSIVE IntDigits(_, _)
IntDigits(n, base) ==
    IF n < base THEN <<n>>
    ELSE Append(IntDigits(n \div base, base), n % base)

bin(n) == [i \in 1..Len(IntDigits(n, 2)) |-> LowerDigits[IntDigits(n, 2)[i] + 1]]

hex(n) == [i \in 1..Len(IntDigits(n, 16)) |-> LowerDigits[IntDigits(n, 16)[i] + 1]]

upper(s) == [i \in 1..Len(s) |->
               IF s[i] \in Range(LowerDigits) THEN UpperDigits[DigitVal(s[i]) + 1] ELSE s[i]]

zfill(s, width) ==
    IF Len(s) >= width THEN s ELSE [i \in 1..(width - Len(s)) |-> "0"] \o s

reversed(s) == [i \in 1..Len(s) |-> s[Len(s) + 1 - i]]

\* s[:n] and s[n:] of Python, n >= 0
take(s, n) == SubSeq(s, 1, IF n < Len(s) THEN n ELSE Len(s))
drop(s, n) == SubSeq(s, n + 1, Len(s))

(***************************************************************************)
(* Script 2: the byte transform.                                           *)
(***************************************************************************)
\* the conversion without the zfill: leading zero bits are lost
hex_to_binary_nofill(hex_value, bits) == bin(int(hex_value, 16))

hex_to_binary(hex_value, bits) == zfill(bin(int(hex_value, 16)), bits)

\* the comparison of the NOT turned round: every bit is kept
binary_not_identity(binary_value) ==
    [i \in 1..Len(binary_value) |-> IF binary_value[i] = "1" THEN "1" ELSE "0"]

binary_not(binary_value) ==
    [i \in 1..Len(binary_value) |-> IF binary_value[i] = "0" THEN "1" ELSE "0"]

\* the conversion without the zfill: a byte below 0x10 gives one digit
binary_to_hex_nofill(binary_value) == upper(hex(int(binary_value, 2)))

binary_to_hex(binary_value) == zfill(upper(hex(int(binary_value, 2))), 2)

\* bin = hex_to_binary(hex, 8); rbin = bin[::-1]
rbin(hex2) == reversed(hex_to_binary(hex2, 8))

\* ahex = binary_to_hex(rbin)
ahex(hex2) == binary_to_hex(rbin(hex2))

process_24bit_hex(hex_value) ==
    LET hex1 == SubSeq(hex_value, 1, 2)
        hex2 == SubSeq(hex_value, 3, 4)
        hex3 == SubSeq(hex_value, 5, 6)
        rbin1 == rbin(hex1)
        rbin2 == rbin(hex2)
        rbin3 == rbin(hex3)
        rbin4 == binary_not(rbin3)
    IN  binary_to_hex(rbin1) \o binary_to_hex(rbin2) \o
        binary_to_hex(rbin3) \o binary_to_hex(rbin4)

\* lines 50-58 and 64-66 alone: the three bytes bit-reversed, no fourth byte
reverse_bytes(hex_value) ==
    ahex(SubSeq(hex_value, 1, 2)) \o ahex(SubSeq(hex_value, 3, 4)) \o
    ahex(SubSeq(hex_value, 5, 6))

(***************************************************************************)
(* The packer.  A raise is the record with raised = TRUE and no halves.    *)
(***************************************************************************)
\* the halves cut one digit early
split_at_3(hex_value) ==
    IF Len(hex_value) # 8
    THEN [raised |-> TRUE, part1 |-> <<>>, part2 |-> <<>>]
    ELSE [raised |-> FALSE, part1 |-> take(hex_value, 3), part2 |-> drop(hex_value, 3)]

\* the length check as "too short" only: a longer input is cut into halves
split_lenient(hex_value) ==
    IF Len(hex_value) < 8
    THEN [raised |-> TRUE, part1 |-> <<>>, part2 |-> <<>>]
    ELSE [raised |-> FALSE, part1 |-> take(hex_value, 4), part2 |-> drop(hex_value, 4)]

split_32bit_hex_to_16bit(hex_value) ==
    IF Len(hex_value) # 8
    THEN [raised |-> TRUE, part1 |-> <<>>, part2 |-> <<>>]
    ELSE [raised |-> FALSE, part1 |-> take(hex_value, 4), part2 |-> drop(hex_value, 4)]

\* f"0x{part1} 0x{part2}"
formatted_parts(part1, part2) == <<"0", "x">> \o part1 \o <<" ", "0", "x">> \o part2

(***************************************************************************)
(* Script 1: the two scans of re.findall and the padding.                  *)
(***************************************************************************)
\* the end of the greedy \s* that starts at p
SkipSpace(t, p) ==
    CHOOSE q \in p..(Len(t) + 1) :
        /\ \A r \in p..(q - 1) : IsSpace(t[r])
        /\ q = Len(t) + 1 \/ ~IsSpace(t[q])

\* \b before p (t[p] is a word character) and \b before e (t[e-1] is one)
BoundaryBefore(t, p) == p = 1 \/ ~IsWordChar(t[p - 1])
BoundaryAfter(t, e) == e > Len(t) \/ ~IsWordChar(t[e])

\* ',\s*(.*?)\s*=' tried at the comma at p: the ends e of the captures that
\* match (no newline in the capture, then \s*, then '=').  The lazy capture
\* takes the least of them.
LabelEnds(t, p) ==
    LET s == SkipSpace(t, p + 1)
    IN  {e \in s..(Len(t) + 1) :
            /\ \A r \in s..(e - 1) : t[r] # NL
            /\ SkipSpace(t, e) <= Len(t)
            /\ t[SkipSpace(t, e)] = "="}

Least(S) == CHOOSE x \in S : \A y \in S : x <= y

RECURSIVE LabelScan(_, _)
LabelScan(t, p) ==
    IF p > Len(t) THEN <<>>
    ELSE LET ends == LabelEnds(t, p)
             s == SkipSpace(t, p + 1)
             e == Least(ends)
         IN  IF t[p] = "," /\ ends # {}
             THEN <<SubSeq(t, s, e - 1)>> \o LabelScan(t, SkipSpace(t, e) + 1)
             ELSE LabelScan(t, p + 1)

extract_text_between_comma_and_equal(t) == LabelScan(t, 1)

\* [0-9A-Fa-f]{1,2} at p, greedy: the number of digits taken (0: no digit)
TokLen(t, p) ==
    IF p > Len(t) \/ ~IsHexChar(t[p]) THEN 0
    ELSE IF p + 1 <= Len(t) /\ IsHexChar(t[p + 1]) THEN 2 ELSE 1

\* '\b(H{1,2})\s+(H{1,2})\s+(H{1,2})\b' tried at p: the match, or ok = FALSE.
\* A token that could take two digits and takes one is followed by a digit,
\* so neither \s+ nor \b can follow it: the greedy choice is the only one.
GroupAt(t, p) ==
    LET l1 == TokLen(t, p)
        a  == p + l1
        b  == SkipSpace(t, a)
        l2 == TokLen(t, b)
        c  == b + l2
        d  == SkipSpace(t, c)
        l3 == TokLen(t, d)
        e  == d + l3
    IN  IF /\ l1 > 0 /\ BoundaryBefore(t, p)
           /\ b > a /\ l2 > 0
           /\ d > c /\ l3 > 0
           /\ BoundaryAfter(t, e)
        THEN [ok |-> TRUE, next |-> e,
              group |-> <<SubSeq(t, p, a - 1), SubSeq(t, b, c - 1), SubSeq(t, d, e - 1)>>]
        ELSE [ok |-> FALSE, next |-> p + 1, group |-> <<>>]

RECURSIVE GroupScan(_, _)
GroupScan(t, p) ==
    IF p > Len(t) THEN <<>>
    ELSE LET g == GroupAt(t, p)
         IN  IF g.ok THEN <<g.group>> \o GroupScan(t, g.next)
             ELSE GroupScan(t, p + 1)

\* 0xFF of the range filter
ByteMax == 255

extract_hex_groups(t) ==
    SelectSeq(GroupScan(t, 1), LAMBDA group : \A k \in 1..3 : int(group[k], 16) <= ByteMax)

\* f"{int(hex_value, 16):02X}"
zero_pad_hex(hex_value) == zfill(upper(hex(int(hex_value, 16))), 2)

\* '\b[0-9A-Fa-f]{6}\b' tried at p
SixAt(t, p) ==
    /\ p + 5 <= Len(t)
    /\ \A r \in p..(p + 5) : IsHexChar(t[r])
    /\ BoundaryBefore(t, p)
    /\ BoundaryAfter(t, p + 6)

RECURSIVE SixScan(_, _)
SixScan(t, p) ==
    IF p > Len(t) THEN <<>>
    ELSE IF SixAt(t, p) THEN <<SubSeq(t, p, p + 5)>> \o SixScan(t, p + 6)
         ELSE SixScan(t, p + 1)

\* str.strip()
strip(s) ==
    LET keep == {i \in 1..Len(s) : ~IsSpace(s[i])}
    IN  IF keep = {} THEN <<>>
        ELSE SubSeq(s, Least(keep), CHOOSE j \in keep : \A k \in keep : k <= j)

\* str.split("\t")
RECURSIVE split_tab(_)
split_tab(s) ==
    LET tabs == {i \in 1..Len(s) : s[i] = TAB}
    IN  IF tabs = {} THEN <<s>>
        ELSE <<SubSeq(s, 1, Least(tabs) - 1)>> \o split_tab(drop(s, Least(tabs)))


(***************************************************************************)
(* main: the pairing loop (lines 160-172).                                 *)
(***************************************************************************)
NA == <<"N", "/", "A">>

\* the bound of the lookup one short: the last label is never used
extracted_text_short(texts, i) == IF i < Len(texts) THEN texts[i] ELSE NA

\* extracted_texts[i] if i < len(extracted_texts) else "N/A"  (i from 1 here)
extracted_text(texts, i) == IF i <= Len(texts) THEN texts[i] ELSE NA

\* ''.join(padded_group)
hex_24bit(group) ==
    zero_pad_hex(group[1]) \o zero_pad_hex(group[2]) \o zero_pad_hex(group[3])

\* f"{extracted_text}\t{hex_24bit}"
output_line(texts, groups, i) ==
    extracted_text(texts, i) \o <<TAB>> \o hex_24bit(groups[i])

pair_lines(texts, groups) ==
    [i \in 1..Len(groups) |-> output_line(texts, groups, i)]

(***************************************************************************)
(* main: the transform loop (lines 174-190).  The state of the loop is the *)
(* line so far, the values handed to the packer and whether it raised.     *)
(***************************************************************************)
RECURSIVE process_matches(_, _, _)
process_matches(line, matches, args) ==
    IF Len(matches) = 0 THEN [line |-> line, args |-> args, raised |-> FALSE]
    ELSE LET anhex == process_24bit_hex(Head(matches))
             line1 == strip(line) \o <<TAB>> \o anhex
             parts == split_32bit_hex_to_16bit(anhex)
             line2 == line1 \o <<TAB>> \o formatted_parts(parts.part1, parts.part2) \o <<NL>>
         IN  IF parts.raised
             THEN [line |-> line1, args |-> Append(args, anhex), raised |-> TRUE]
             ELSE process_matches(line2, Tail(matches), Append(args, anhex))

process_line(line, args) == process_matches(line, SixScan(line, 1), args)

\* the loop over output_lines: a raise ends it with the lines appended so far
RECURSIVE process_lines(_, _, _)
process_lines(lines, done, args) ==
    IF Len(lines) = 0 THEN [lines |-> done, args |-> args, raised |-> FALSE]
    ELSE LET r == process_line(Head(lines), args)
         IN  IF r.raised
             THEN [lines |-> done, args |-> r.args, raised |-> TRUE]
             ELSE process_lines(Tail(lines), Append(done, r.line), r.args)

(***************************************************************************)
(* extract_brand_and_model and generate_xml_content.  No text of the model *)
(* holds "Brand=" or "Model=", so both searches fail and the defaults are  *)
(* taken.  A line of the document is a record of its tag and attributes.   *)
(***************************************************************************)
brand == <<"B", "r", "a", "n", "d">>
model == <<"I", "t", "e", "m", "X">>

xml_head(b, m) ==
    << [tag |-> "irplus", label |-> <<>>, span |-> "", body |-> <<>>],
       [tag |-> "device", label |-> b \o <<"-">> \o m, span |-> "", body |-> <<>>],
       [tag |-> "button", label |-> b \o <<"-">> \o m, span |-> "8", body |-> <<" ">>] >>

xml_tail ==
    << [tag |-> "/device", label |-> <<>>, span |-> "", body |-> <<>>],
       [tag |-> "/irplus", label |-> <<>>, span |-> "", body |-> <<>>] >>

\* parts = line.strip().split("\t")
line_parts(line) == split_tab(strip(line))

\* len(parts) >= 4
has_columns(parts) == Len(parts) >= 4

button_line(parts) ==
    [tag |-> "button", label |-> parts[1], span |-> "4", body |-> parts[4]]

RECURSIVE xml_buttons(_)
xml_buttons(lines) ==
    IF Len(lines) = 0 THEN <<>>
    ELSE LET parts == line_parts(Head(lines))
         IN  IF has_columns(parts)
             THEN <<button_line(parts)>> \o xml_buttons(Tail(lines))
             ELSE xml_buttons(Tail(lines))

\* the lines st.warning reports as skipped
xml_warnings(lines) == SelectSeq(lines, LAMBDA l : ~has_columns(line_parts(l)))

\* a placeholder button for a document that would have none
generate_xml_placeholder(lines, b, m) ==
    xml_head(b, m) \o
    (IF xml_buttons(lines) = <<>>
     THEN <<[tag |-> "button", label |-> NA, span |-> "4", body |-> <<>>]>>
     ELSE xml_buttons(lines)) \o xml_tail

generate_xml_content(lines, b, m) == xml_head(b, m) \o xml_buttons(lines) \o xml_tail

(***************************************************************************)
(* The texts of the model: up to MaxChunks pieces, each from Chunks.       *)
(***************************************************************************)
Chunks ==
    { <<",">>, <<",", "g">>, <<"=">>, <<" ">>, <<NL>>, <<TAB, "g">>,
      <<"d", "e", "c", "a", "d", "e">>,
      <<"1", " ", "2", "F", " ", "3", " ">>,
      <<"0", "A", " ", "b", "0", " ", "C", " ">> }

RECURSIVE Flatten(_)
Flatten(cs) == IF Len(cs) = 0 THEN <<>> ELSE Head(cs) \o Flatten(Tail(cs))

ChunkSeqs == UNION {[1..n -> Chunks] : n \in 0..MaxChunks}

(***************************************************************************)
(* main, one action per stage of the handler.                              *)
(***************************************************************************)
IdleT == t_in = <<>> /\ t_out = <<>> /\ t_pc = "idle" /\ t_rr = <<>> /\ t_n = 0
IdleP == p_in = <<>> /\ p_out = [raised |-> FALSE, part1 |-> <<>>, part2 |-> <<>>]
         /\ p_fmt = <<>> /\ p_pc = "idle"
IdleMain ==
    /\ text = <<>> /\ pc = "idle"
    /\ extracted_texts = <<>> /\ hex_groups = <<>>
    /\ output_lines = <<>> /\ processed_lines = <<>>
    /\ split_args = <<>> /\ raised = FALSE
    /\ xml_content = <<>> /\ warnings = <<>>

Init ==
    /\ \E cs \in ChunkSeqs : text = Flatten(cs)
    /\ pc = "start"
    /\ extracted_texts = <<>> /\ hex_groups = <<>>
    /\ output_lines = <<>> /\ processed_lines = <<>>
    /\ split_args = <<>> /\ raised = FALSE
    /\ xml_content = <<>> /\ warnings = <<>>
    /\ IdleT /\ IdleP

Extract ==
    /\ pc = "start"
    /\ extracted_texts' = extract_text_between_comma_and_equal(text)
    /\ hex_groups' = extract_hex_groups(text)
    /\ pc' = "extracted"
    /\ UNCHANGED <<text, output_lines, processed_lines, split_args, raised,
                   xml_content, warnings, tVars, pVars>>

Pair ==
    /\ pc = "extracted"
    /\ output_lines' = pair_lines(extracted_texts, hex_groups)
    /\ pc' = "paired"
    /\ UNCHANGED <<text, extracted_texts, hex_groups, processed_lines, split_args,
                   raised, xml_content, warnings, tVars, pVars>>

Process ==
    /\ pc = "paired"
    /\ LET r == process_lines(output_lines, <<>>, <<>>)
       IN  /\ processed_lines' = r.lines
           /\ split_args' = r.args
           /\ raised' = r.raised
           /\ pc' = IF r.raised THEN "raised" ELSE "processed"
    /\ UNCHANGED <<text, extracted_texts, hex_groups, output_lines,
                   xml_content, warnings, tVars, pVars>>

Assemble ==
    /\ pc = "processed"
    /\ xml_content' = generate_xml_content(processed_lines, brand, model)
    /\ warnings' = xml_warnings(processed_lines)
    /\ pc' = "done"
    /\ UNCHANGED <<text, extracted_texts, hex_groups, output_lines, processed_lines,
                   split_args, raised, tVars, pVars>>

Next == Extract \/ Pair \/ Process \/ Assemble

Spec == Init /\ [][Next]_vars

(***************************************************************************)
(* process_24bit_hex called on its own: every byte in one place with the   *)
(* other two from SampleBytes, and all zero, in upper or in lower case.     *)
(***************************************************************************)
SampleBytes == {1, 3, ByteMax}

hex2(b, digits) == <<digits[(b \div 16) + 1], digits[(b % 16) + 1]>>

TripleBytes ==
    {<<b, s[1], s[2]>> : b \in 0..ByteMax, s \in SampleBytes \X SampleBytes} \cup
    {<<s[1], b, s[2]>> : b \in 0..ByteMax, s \in SampleBytes \X SampleBytes} \cup
    {<<s[1], s[2], b>> : b \in 0..ByteMax, s \in SampleBytes \X SampleBytes} \cup
    {<<0, 0, 0>>}

TInputs ==
    {hex2(tr[1], d) \o hex2(tr[2], d) \o hex2(tr[3], d) :
        tr \in TripleBytes, d \in {UpperDigits, LowerDigits}}

InitT ==
    /\ IdleMain /\ IdleP
    /\ t_in \in TInputs
    /\ t_out = <<>> /\ t_pc = "start"
    /\ t_rr = t_in /\ t_n = 0

Transform ==
    /\ t_pc = "start"
    /\ t_out' = process_24bit_hex(t_in)
    /\ t_pc' = "done"
    /\ UNCHANGED <<mainVars, pVars, t_in, t_rr, t_n>>

Reverse ==
    /\ t_n < 2
    /\ t_rr' = reverse_bytes(t_rr)
    /\ t_n' = t_n + 1
    /\ UNCHANGED <<mainVars, pVars, t_in, t_out, t_pc>>

NextT == Transform \/ Reverse

SpecT == InitT /\ [][NextT]_vars

(***************************************************************************)
(* split_32bit_hex_to_16bit called on its own, then the rendering of the   *)
(* halves (main, line 188).                                                *)
(***************************************************************************)
PackDigits == {"0", "A", "f"}

Example32 == <<"2", "0", "D", "E", "5", "0", "A", "F">>

PInputs ==
    UNION {[1..n -> PackDigits] : n \in 0..MaxPackLen} \cup {Example32}

InitP ==
    /\ IdleMain /\ IdleT
    /\ p_in \in PInputs
    /\ p_out = [raised |-> FALSE, part1 |-> <<>>, part2 |-> <<>>]
    /\ p_fmt = <<>> /\ p_pc = "start"

Split ==
    /\ p_pc = "start"
    /\ p_out' = split_32bit_hex_to_16bit(p_in)
    /\ p_pc' = IF p_out'.raised THEN "raised" ELSE "split"
    /\ UNCHANGED <<mainVars, tVars, p_in, p_fmt>>

Format ==
    /\ p_pc = "split"
    /\ p_fmt' = formatted_parts(p_out.part1, p_out.part2)
    /\ p_pc' = "formatted"
    /\ UNCHANGED <<mainVars, tVars, p_in, p_out>>

NextP == Split \/ Format

SpecP == InitP /\ [][NextP]_vars

(***************************************************************************)
(* Properties.                                                              *)
(***************************************************************************)
\* the value of the k-th byte (two digits) of a hex string
ByteAt(h, k) == 16 * DigitVal(h[2 * k - 1]) + DigitVal(h[2 * k])

Bit(b, k) == (b \div (2 ^ k)) % 2

\* bit 7 <-> bit 0, bit 6 <-> bit 1, ...
RevBits(b) ==
    128 * Bit(b, 0) + 64 * Bit(b, 1) + 32 * Bit(b, 2) + 16 * Bit(b, 3) +
    8 * Bit(b, 4) + 4 * Bit(b, 5) + 2 * Bit(b, 6) + Bit(b, 7)

Zero24 == <<"0", "0", "0", "0", "0", "0">>
Ones24 == <<"F", "F", "F", "F", "F", "F">>

\* C1: process_24bit_hex of the bytes b1, b2, b3 is the 8 upper-case digits
\* of rev(b1), rev(b2), rev(b3), 255 - rev(b3); 000000 gives 000000FF and
\* FFFFFF gives FFFFFF00.
C1_Transform ==
    t_pc = "done" =>
        /\ t_out = hex2(RevBits(ByteAt(t_in, 1)), UpperDigits) \o
                   hex2(RevBits(ByteAt(t_in, 2)), UpperDigits) \o
                   hex2(RevBits(ByteAt(t_in, 3)), UpperDigits) \o
                   hex2(255 - RevBits(ByteAt(t_in, 3)), UpperDigits)
        /\ t_in = Zero24 => t_out = <<"0", "0", "0", "0", "0", "0", "F", "F">>
        /\ t_in = Ones24 => t_out = <<"F", "F", "F", "F", "F", "F", "0", "0">>

C1_Witness ==
    /\ t_pc = "done"
    /\ t_in = <<"0", "1", "2", "F", "0", "3">>
    /\ t_out = <<"8", "0", "F", "4", "C", "0", "3", "F">>

Entries == SubSeq(xml_content, 4, Len(xml_content) - 2)

\* the packed transform of a triple, as the document should show it
PackedCode(group) ==
    LET parts == split_32bit_hex_to_16bit(process_24bit_hex(hex_24bit(group)))
    IN  formatted_parts(parts.part1, parts.part2)

\* C2: the code rendered for the i-th entry is the packed transform of the
\* i-th accepted triple, whatever the label paired with it.
C2_CodeOfTriple ==
    (pc = "done" /\ Len(Entries) = Len(hex_groups)) =>
        \A i \in 1..Len(hex_groups) : Entries[i].body = PackedCode(hex_groups[i])

\* C3: the transcoded entries and the entry records of the document are as
\* many as the accepted triples.
C3_EntryCount ==
    pc = "done" =>
        /\ Len(processed_lines) = Len(hex_groups)
        /\ Len(Entries) = Len(hex_groups)

\* C4: the i-th line pairs the i-th triple with the i-th label, or with
\* "N/A" when there is no i-th label; there are as many lines as triples.
C4_PositionalPairing ==
    pc \in {"paired", "processed", "done"} =>
        /\ Len(output_lines) = Len(hex_groups)
        /\ \A i \in 1..Len(hex_groups) :
             LET lab == IF i <= Len(extracted_texts)
                        THEN extracted_texts[i] ELSE <<"N", "/", "A">>
                 line == output_lines[i]
             IN  /\ Len(line) = Len(lab) + 7
                 /\ SubSeq(line, 1, Len(lab)) = lab
                 /\ line[Len(lab) + 1] = TAB
                 /\ \A k \in 1..3 :
                      ByteAt(SubSeq(line, Len(lab) + 2, Len(line)), k)
                        = int(hex_groups[i][k], 16)

C4_Witness ==
    /\ pc = "paired"
    /\ Len(hex_groups) = 2
    /\ extracted_texts = << <<"g">> >>
    /\ SubSeq(output_lines[1], 1, 2) = <<"g", TAB>>
    /\ SubSeq(output_lines[2], 1, 4) = <<"N", "/", "A", TAB>>

\* C5: a triple whose label was extracted empty is given the label "N/A".
C5_EmptyLabelFallsBack ==
    pc \in {"paired", "processed", "done"} =>
        \A i \in 1..Len(hex_groups) :
            (i <= Len(extracted_texts) /\ extracted_texts[i] = <<>>) =>
                SubSeq(output_lines[i], 1, 4) = <<"N", "/", "A", TAB>>

\* C6: an 8-digit input is split into its first four and its last four
\* digits, unchanged, and each half is rendered after "0x"; 20DE50AF gives
\* 0x20DE and 0x50AF.
C6_PackSplits ==
    (Len(p_in) = 8 /\ p_pc # "start") =>
        /\ p_pc \in {"split", "formatted"}
        /\ ~p_out.raised
        /\ Len(p_out.part1) = 4 /\ Len(p_out.part2) = 4
        /\ \A k \in 1..4 : p_out.part1[k] = p_in[k] /\ p_out.part2[k] = p_in[k + 4]
        /\ p_out.part1 \o p_out.part2 = p_in
        /\ p_pc = "formatted" =>
             /\ Len(p_fmt) = 13
             /\ SubSeq(p_fmt, 1, 2) = <<"0", "x">>
             /\ SubSeq(p_fmt, 3, 6) = SubSeq(p_in, 1, 4)
             /\ SubSeq(p_fmt, 7, 9) = <<" ", "0", "x">>
             /\ SubSeq(p_fmt, 10, 13) = SubSeq(p_in, 5, 8)

C6_Witness ==
    /\ p_pc = "formatted"
    /\ p_in = Example32
    /\ p_out.part1 = <<"2", "0", "D", "E">>
    /\ p_out.part2 = <<"5", "0", "A", "F">>
    /\ p_fmt = <<"0", "x", "2", "0", "D", "E", " ", "0", "x", "5", "0", "A", "F">>

\* C7: on an input whose length is not 8 the packer raises and returns no
\* halves: nothing is truncated or padded into a result.
C7_PackRejects ==
    (Len(p_in) # 8 /\ p_pc # "start") =>
        /\ p_pc = "raised"
        /\ p_out.raised
        /\ p_out.part1 = <<>> /\ p_out.part2 = <<>>
        /\ p_fmt = <<>>

C7_Witness ==
    /\ p_pc = "raised"
    /\ Len(p_in) = 9
    /\ p_out.raised

HasChar(t, S) == \E i \in 1..Len(t) : t[i] \in S

\* C8: a text with no label match and no accepted triple (in particular one
\* with no comma and no hex digit) gives two empty sequences, no error, and
\* a document of the header and the closing lines only.
C8_EmptyDocument ==
    /\ (pc # "start" /\ ~HasChar(text, {","}) /\ ~HasChar(text, Range(UpperDigits) \cup Range(LowerDigits)))
          => (extracted_texts = <<>> /\ hex_groups = <<>>)
    /\ (pc \in {"paired", "processed", "done"} /\ extracted_texts = <<>> /\ hex_groups = <<>>)
          => (~raised /\ pc # "raised" /\ output_lines = <<>>)
    /\ (pc = "done" /\ extracted_texts = <<>> /\ hex_groups = <<>>)
          => /\ Len(xml_content) = 5
             /\ <<xml_content[1].tag, xml_content[2].tag, xml_content[3].tag,
                  xml_content[4].tag, xml_content[5].tag>>
                  = <<"irplus", "device", "button", "/device", "/irplus">>
             /\ xml_content[3].span = "8"
             /\ \A k \in 1..Len(xml_content) : xml_content[k].span # "4"
             /\ warnings = <<>>

C8_Witness ==
    /\ pc = "done"
    /\ text = <<TAB, "g", " ", NL>>
    /\ extracted_texts = <<>> /\ hex_groups = <<>>
    /\ Len(xml_content) = 5

\* C9: the bit reversal of lines 50-66, applied twice, gives the byte back,
\* and each application keeps all 8 bits and both hex digits.
C9_ReverseTwice ==
    /\ Len(t_rr) = Len(t_in)
    /\ \A k \in 1..(Len(t_rr) \div 2) :
         /\ Len(hex_to_binary(SubSeq(t_rr, 2 * k - 1, 2 * k), 8)) = 8
         /\ t_n = 1 => ByteAt(t_rr, k) = RevBits(ByteAt(t_in, k))
         /\ t_n = 2 => ByteAt(t_rr, k) = ByteAt(t_in, k)

C9_Witness ==
    /\ t_n = 2
    /\ t_in = <<"0", "1", "2", "F", "0", "3">>
    /\ t_rr = t_in

\* C10: every value handed to the packer has exactly 8 hex digits, and no
\* run raises: all lines are processed and the document is assembled.
C10_NeverRaises ==
    /\ ~raised /\ pc # "raised"
    /\ \A k \in 1..Len(split_args) :
         /\ Len(split_args[k]) = 8
         /\ \A j \in 1..8 : IsHexChar(split_args[k][j])
    /\ pc \in {"processed", "done"} =>
         /\ Len(processed_lines) = Len(output_lines)
         /\ Len(split_args) >= Len(output_lines)
    /\ pc = "done" => Len(xml_content) >= 5

C10_Witness ==
    /\ pc = "done"
    /\ Len(split_args) = 2
    /\ split_args[2] = <<"5", "0", "0", "D", "3", "0", "C", "F">>

====
